---------------------------- MODULE Spec2Model ----------------------------
(***************************************************************************)
(* Model of flywheel_bids_tools/upload_bids.py: the diff / validate /      *)
(* report / apply pipeline run by main() over an original and a modified   *)
(* table.                                                                  *)
(*                                                                         *)
(* Representation.  A Python string is the sequence of its characters, so  *)
(* that lower(), split("_") and the filename regular expressions are       *)
(* computed, not assumed.  A cell value is a record [t, s, n]: t is "str"  *)
(* (s holds the characters), "num" (n holds the integer) or "nan" (a       *)
(* missing cell).  A table is [cols, rows]: the column names and the rows  *)
(* as sequences of cell values.  Row and column indices produced by the    *)
(* diff are 0-based, as in the source.  A singly-nested dict               *)
(* {k1: {k2: v}} is the record [keys |-> <<k1, k2>>, leaf |-> v]; a bare   *)
(* value is [keys |-> <<>>, leaf |-> v].                                   *)
(***************************************************************************)
EXTENDS Integers, Sequences, FiniteSets, TLC

VARIABLES original, modified, pc, unequal, provenance, valid,
          ERROR_MESSAGES, x, k, res, printed, gets, calls

vars == <<original, modified, pc, unequal, provenance, valid,
          ERROR_MESSAGES, x, k, res, printed, gets, calls>>

---------------------------------------------------------------------------
(* Python values *)

Str(s) == [t |-> "str", s |-> s, n |-> 0]

Num(n) == [t |-> "num", s |-> <<>>, n |-> n]

NaN == [t |-> "nan", s |-> <<>>, n |-> 0]

(* Python ==: equal strings, equal numbers; a string never equals a number *)
(* and nan equals nothing, itself included.                                *)
PyEq(a, b) == a.t = b.t /\ a.t # "nan" /\ a.s = b.s /\ a.n = b.n

UpperAlphabet == <<"A", "B", "C", "D", "E", "F", "G", "H", "I", "J", "K", "L", "M", "N", "O", "P", "Q", "R", "S", "T", "U", "V", "W", "X", "Y", "Z">>

LowerAlphabet == <<"a", "b", "c", "d", "e", "f", "g", "h", "i", "j", "k", "l", "m", "n", "o", "p", "q", "r", "s", "t", "u", "v", "w", "x", "y", "z">>

DigitChars == <<"0", "1", "2", "3", "4", "5", "6", "7", "8", "9">>

Range(f) == {f[j] : j \in DOMAIN f}

(* the lower-case letter of each upper-case letter *)
LowerOf ==
    [c \in Range(UpperAlphabet) |->
        LowerAlphabet[CHOOSE j \in 1..Len(UpperAlphabet) : UpperAlphabet[j] = c]]

LowerChar(c) == IF c \in DOMAIN LowerOf THEN LowerOf[c] ELSE c

(* str.lower() *)
Lower(s) == [j \in 1..Len(s) |-> LowerChar(s[j])]

RECURSIVE NatToStr(_)
NatToStr(n) ==
    IF n < 10 THEN <<DigitChars[n + 1]>>
    ELSE NatToStr(n \div 10) \o <<DigitChars[(n % 10) + 1]>>

(* str(v) *)
PyStr(v) ==
    CASE v.t = "str" -> v.s
      [] v.t = "num" -> IF v.n < 0 THEN <<"-">> \o NatToStr(0 - v.n) ELSE NatToStr(v.n)
      [] OTHER -> <<"n", "a", "n">>

RECURSIVE SplitFrom(_, _, _)
SplitFrom(s, j, cur) ==
    IF j > Len(s) THEN <<cur>>
    ELSE IF s[j] = "_" THEN <<cur>> \o SplitFrom(s, j + 1, <<>>)
    ELSE SplitFrom(s, j + 1, Append(cur, s[j]))

(* s.split("_") *)
Split(s) == SplitFrom(s, 1, <<>>)

---------------------------------------------------------------------------
(* The three filename regular expressions, as sets of reachable positions *)

AlNum == Range(UpperAlphabet) \cup Range(LowerAlphabet) \cup Range(DigitChars)

(* positions after the literal lit, read from a position of P *)
Lit(s, P, lit) ==
    {p + Len(lit) : p \in {q \in P : /\ q + Len(lit) - 1 <= Len(s)
                                     /\ \A j \in 1..Len(lit) : s[q + j - 1] = lit[j]}}

(* [a-zA-Z0-9]+ *)
AlNumRun(s, P) ==
    {q \in 2..(Len(s) + 1) : \E p \in P : p < q /\ \A j \in p..(q - 1) : s[j] \in AlNum}

(* (tag[a-zA-Z0-9]+)? *)
Seg(s, P, tag) == P \cup AlNumRun(s, Lit(s, P, tag))

(* \.nii(\.gz)? *)
NiiSuffix(s, P) == LET a == Lit(s, P, <<".", "n", "i", "i">>) IN a \cup Lit(s, a, <<".", "g", "z">>)

(* $ : the end of the string, or just before a final newline *)
AtEnd(s, P) == \E p \in P : p = Len(s) + 1 \/ (p = Len(s) /\ s[p] = "\n")

SubjectPrefix(s) == AlNumRun(s, Lit(s, {1}, <<"s", "u", "b", "-">>))

anat1(s) ==
    LET p1 == Seg(s, SubjectPrefix(s), <<"_", "s", "e", "s", "-">>)
        p2 == Seg(s, p1, <<"_", "a", "c", "q", "-">>)
        p3 == Seg(s, p2, <<"_", "c", "e", "-">>)
        p4 == Seg(s, p3, <<"_", "r", "e", "c", "-">>)
        p5 == Seg(s, p4, <<"_", "r", "u", "n", "-">>)
        p6 == Seg(s, p5, <<"_">>)
    IN  AtEnd(s, NiiSuffix(s, p6))

anat2(s) ==
    LET p1 == Seg(s, SubjectPrefix(s), <<"_", "s", "e", "s", "-">>)
        p2 == Seg(s, p1, <<"_", "a", "c", "q", "-">>)
        p3 == Seg(s, p2, <<"_", "c", "e", "-">>)
        p4 == Seg(s, p3, <<"_", "r", "e", "c", "-">>)
        p5 == Seg(s, p4, <<"_", "r", "u", "n", "-">>)
        p6 == Seg(s, p5, <<"_", "m", "o", "d", "-">>)
        p7 == AlNumRun(s, Lit(s, p6, <<"_">>))
    IN  AtEnd(s, NiiSuffix(s, p7))

func1(s) ==
    LET p1 == Seg(s, SubjectPrefix(s), <<"_", "s", "e", "s", "-">>)
        p2 == Seg(s, p1, <<"_", "t", "a", "s", "k", "-">>)
        p3 == Seg(s, p2, <<"_", "a", "c", "q", "-">>)
        p4 == Seg(s, p3, <<"_", "c", "e", "-">>)
        p5 == Seg(s, p4, <<"_", "d", "i", "r", "-">>)
        p6 == Seg(s, p5, <<"_", "r", "e", "c", "-">>)
        p7 == Seg(s, p6, <<"_", "r", "u", "n", "-">>)
        p8 == Seg(s, p7, <<"_", "e", "c", "h", "o", "-">>)
        p9 == Seg(s, p8, <<"_">>)
    IN  AtEnd(s, NiiSuffix(s, p9))

---------------------------------------------------------------------------
(* change_checker *)

drop_down_bool == {<<"i", "g", "n", "o", "r", "e">>, <<"v", "a", "l", "i", "d">>}

drop_down_single_fields ==
    [field \in {<<"m", "o", "d", "a", "l", "i", "t", "y">>} |->
        {<<>>, <<"m", "r">>, <<"c", "t">>, <<"p", "e", "t">>, <<"u", "s">>, <<"e", "e", "g">>, <<"i", "e", "e", "g">>, <<"x", "-", "r", "a", "y">>,
         <<"e", "c", "g">>, <<"m", "e", "g">>, <<"n", "i", "r", "s">>}]

string_fields ==
    {<<"a", "c", "q", "u", "i", "s", "i", "t", "i", "o", "n", ".", "l", "a", "b", "e", "l">>, <<"p", "r", "o", "j", "e", "c", "t", ".", "l", "a", "b", "e", "l">>, <<"e", "r", "r", "o", "r", "_", "m", "e", "s", "s", "a", "g", "e">>,
     <<"s", "u", "b", "j", "e", "c", "t", ".", "l", "a", "b", "e", "l">>, <<"f", "o", "l", "d", "e", "r">>, <<"t", "e", "m", "p", "l", "a", "t", "e">>,
     <<"i", "n", "t", "e", "n", "d", "e", "d", "f", "o", "r">>, <<"m", "o", "d">>, <<"p", "a", "t", "h">>, <<"r", "e", "c">>, <<"t", "a", "s", "k">>, <<"r", "u", "n">>}

MsgBoolean == "This field accepts booleans, these can only be written as \"True\" or \"False\"!"

MsgDropDown == "This field must match one of the available options in the drop-down menu on the website!"

MsgString == "This field only accepts strings!"

MsgFilename == "This field MUST be a BIDS compliant name!"

MsgAcquisitionId == "You cannot edit the acquisition ID!"

(* return True *)
Accept(q) == [ret |-> TRUE, q |-> q]

(* a Reject that forgets to queue its diagnostic *)
RejectSilently(q, msg) == [ret |-> FALSE, q |-> q]

(* ERROR_MESSAGES.append(msg); return False *)
Reject(q, msg) == [ret |-> FALSE, q |-> Append(q, msg)]

(* change_checker(user_input, column) run with ERROR_MESSAGES = q: the     *)
(* value returned and ERROR_MESSAGES afterwards.                           *)
change_checker(user_input, column, q) ==
    LET column_lower == Lower(column)
        input_lower  == Lower(PyStr(user_input))
    IN
    IF column_lower \in drop_down_bool
    THEN IF input_lower = <<"t", "r", "u", "e">> \/ input_lower = <<"f", "a", "l", "s", "e">>
         THEN Accept(q)
         ELSE Reject(q, MsgBoolean)
    ELSE IF column_lower \in DOMAIN drop_down_single_fields
    THEN IF \E field \in DOMAIN drop_down_single_fields :
                input_lower \in drop_down_single_fields[field]
         THEN Accept(q)
         ELSE Reject(q, MsgDropDown)
    ELSE IF column_lower \in string_fields
    THEN IF user_input.t = "str" \/ user_input.t = "nan"
         THEN Accept(q)
         ELSE Reject(q, MsgString)
    ELSE IF column_lower = <<"f", "i", "l", "e", "n", "a", "m", "e">>
    THEN IF anat1(PyStr(user_input)) THEN Accept(q)
         ELSE IF anat2(PyStr(user_input)) THEN Accept(q)
         ELSE IF func1(PyStr(user_input)) THEN Accept(q)
         ELSE Reject(q, MsgFilename)
    ELSE IF column = <<"a", "c", "q", "u", "i", "s", "i", "t", "i", "o", "n", ".", "i", "d">>
    THEN Reject(q, MsgAcquisitionId)
    ELSE Accept(q)
---------------------------------------------------------------------------
(* Tables (pandas DataFrames with the default RangeIndex) *)

NRows(df) == Len(df.rows)

NCols(df) == Len(df.cols)

(* df.shape *)
Shape(df) == <<NRows(df), NCols(df)>>

(* df.iloc[r, c], r and c 0-based *)
ILoc(df, r, c) == df.rows[r + 1][c + 1]

(* df.columns[c], c 0-based *)
ColumnAt(df, c) == df.cols[c + 1]

(* df.loc[r, name]: the row labelled r is row r of the RangeIndex *)
Loc(df, r, name) ==
    df.rows[r + 1][CHOOSE c \in 1..NCols(df) : df.cols[c] = name]

(* a comparison that fills nothing *)
FillNaNoOp(v) == v

(* df.fillna(0), on one cell *)
FillNa(v) == IF v.t = "nan" THEN Num(0) ELSE v

(* every coordinate in row-major order, as np.where lists them *)
AllPairs(df) ==
    [j \in 1..(NRows(df) * NCols(df)) |->
        <<(j - 1) \div NCols(df), (j - 1) % NCols(df)>>]

(* get_unequal_cells: the indices where the filled tables differ *)
UnequalIndices(df1, df2) ==
    LET Differs(pair) ==
            ~PyEq(FillNa(ILoc(df1, pair[1], pair[2])), FillNa(ILoc(df2, pair[1], pair[2])))
    IN  SelectSeq(AllPairs(df1), Differs)

(* get_unequal_cells: the provenance log written for the indices *)
ProvenanceOf(df1, df2, indices) ==
    [j \in 1..Len(indices) |->
        [original |-> ILoc(df1, indices[j][1], indices[j][2]),
         modified |-> ILoc(df2, indices[j][1], indices[j][2]),
         row      |-> indices[j][1],
         column   |-> ColumnAt(df1, indices[j][2])]]

---------------------------------------------------------------------------
(* upload_to_flywheel helpers *)

RECURSIVE create_nested_fw_dict(_, _)
create_nested_fw_dict(tree_list, value) ==
    IF tree_list # <<>>
    THEN LET inner == create_nested_fw_dict(Tail(tree_list), value)
         IN  [keys |-> <<Head(tree_list)>> \o inner.keys, leaf |-> inner.leaf]
    ELSE [keys |-> <<>>, leaf |-> value]

(* a key test that looks at every level of the nested dict *)
UpdateKeysAnyDepth(update) == Range(update.keys)

(* update.keys(), for the dict built from a non-empty column_list *)
UpdateKeys(update) == {Head(update.keys)}

(* update[key] *)
SubMapping(update) == [keys |-> Tail(update.keys), leaf |-> update.leaf]

(* a file type read from the original table instead *)
FileTypeFromOriginal(pair) == Loc(original, pair[1], <<"t", "y", "p", "e">>)

(* file_type = modified_df.loc[pair[0], 'type'] *)
FileType(pair) == Loc(modified, pair[1], <<"t", "y", "p", "e">>)

(* [f for f in fw_object.files if f.type == file_type]: the positions *)
MatchingFiles(files, file_type) ==
    {j \in 1..Len(files) : PyEq(files[j], file_type)}

(* a pop() that takes the newest diagnostic *)
PopLast(q) == [msg |-> q[Len(q)], rest |-> SubSeq(q, 1, Len(q) - 1)]

(* ERROR_MESSAGES.pop(0) *)
PopFirst(q) == [msg |-> Head(q), rest |-> Tail(q)]

(* a gate written with "or" *)
GateOpenEither(q, r) == Len(q) = 0 \/ r = TRUE

(* len(ERROR_MESSAGES) is 0 and res is True *)
GateOpen(q, r) == Len(q) = 0 /\ r = TRUE
---------------------------------------------------------------------------
(* Inputs: the two tables main() reads, and what the remote store returns *)

MaxEdits == 2

Table(cols, rows) == [cols |-> cols, rows |-> rows]

SmallCols == <<<<"a", "c", "q", "u", "i", "s", "i", "t", "i", "o", "n", ".", "i", "d">>, <<"t", "y", "p", "e">>, <<"m", "o", "d", "a", "l", "i", "t", "y">>>>

FullCols ==
    <<<<"a", "c", "q", "u", "i", "s", "i", "t", "i", "o", "n", ".", "i", "d">>, <<"t", "y", "p", "e">>, <<"m", "o", "d", "a", "l", "i", "t", "y">>, <<"i", "g", "n", "o", "r", "e">>, <<"I", "n", "t", "e", "n", "d", "e", "d", "F", "o", "r">>,
      <<"f", "i", "l", "e", "n", "a", "m", "e">>, <<"i", "n", "f", "o", "_", "B", "I", "D", "S", "_", "T", "a", "s", "k">>, <<"i", "n", "f", "o", "_", "c", "l", "a", "s", "s", "i", "f", "i", "c", "a", "t", "i", "o", "n", "_", "I", "n", "t", "e", "n", "t">>,
      <<"c", "l", "a", "s", "s", "i", "f", "i", "c", "a", "t", "i", "o", "n", "_", "M", "e", "a", "s", "u", "r", "e", "m", "e", "n", "t">>>>

RowSmall == <<Num(123), Str(<<"n", "i", "f", "t", "i">>), Str(<<"M", "R">>)>>

RowA ==
    <<Num(123), Str(<<"n", "i", "f", "t", "i">>), Str(<<"M", "R">>), Str(<<"F", "a", "l", "s", "e">>), NaN,
      Str(<<"s", "u", "b", "-", "0", "1", "_", "T", "1", "w", ".", "n", "i", "i", ".", "g", "z">>), NaN, Str(<<"S", "t", "r", "u", "c", "t", "u", "r", "a", "l">>), Str(<<"T", "1">>)>>

(* a sparse row: most cells missing, one cell holding the number 0 *)
RowB ==
    <<NaN, Str(<<"d", "i", "c", "o", "m">>), NaN, NaN, NaN, NaN, Num(0), NaN, NaN>>

Originals ==
    {Table(SmallCols, <<RowSmall>>),
     Table(FullCols, <<RowA>>),
     Table(FullCols, <<RowA, RowB>>)}

(* the values a reviewer may type into a cell of the column *)
NewValues(column) ==
    CASE column = <<"a", "c", "q", "u", "i", "s", "i", "t", "i", "o", "n", ".", "i", "d">> -> {Num(456), Num(0), NaN}
      [] column = <<"t", "y", "p", "e">> -> {Str(<<"d", "i", "c", "o", "m">>), Str(<<"n", "i", "f", "t", "i">>)}
      [] column = <<"m", "o", "d", "a", "l", "i", "t", "y">> -> {Str(<<"C", "T">>), Str(<<"x", "y", "z">>), NaN}
      [] column = <<"i", "g", "n", "o", "r", "e">> -> {Str(<<"T", "r", "u", "e">>), Str(<<"y", "e", "s">>)}
      [] column = <<"I", "n", "t", "e", "n", "d", "e", "d", "F", "o", "r">> -> {Str(<<"r", "e", "s", "t">>), Num(5)}
      [] column = <<"f", "i", "l", "e", "n", "a", "m", "e">> ->
            {Str(<<"s", "u", "b", "-", "0", "1", "_", "s", "e", "s", "-", "0", "2", "_", "t", "a", "s", "k", "-", "r", "e", "s", "t", "_", "b", "o", "l", "d", ".", "n", "i", "i", ".", "g", "z">>), Str(<<"n", "o", "t", "_", "a", "_", "b", "i", "d", "s", "_", "n", "a", "m", "e", ".", "t", "x", "t">>)}
      [] column = <<"i", "n", "f", "o", "_", "B", "I", "D", "S", "_", "T", "a", "s", "k">> -> {Str(<<"r", "e", "s", "t">>), Num(0), NaN}
      [] column = <<"i", "n", "f", "o", "_", "c", "l", "a", "s", "s", "i", "f", "i", "c", "a", "t", "i", "o", "n", "_", "I", "n", "t", "e", "n", "t">> -> {Str(<<"F", "u", "n", "c", "t", "i", "o", "n", "a", "l">>)}
      [] column = <<"c", "l", "a", "s", "s", "i", "f", "i", "c", "a", "t", "i", "o", "n", "_", "M", "e", "a", "s", "u", "r", "e", "m", "e", "n", "t">> -> {Str(<<"T", "2">>)}

EditOptions(df) ==
    UNION {{[r |-> r, c |-> c, v |-> v] : r \in 1..NRows(df), v \in NewValues(df.cols[c])} :
              c \in 1..NCols(df)}

RECURSIVE ApplyEdits(_, _)
ApplyEdits(df, edits) ==
    IF edits = <<>> THEN df
    ELSE LET e == Head(edits)
         IN  ApplyEdits([df EXCEPT !.rows[e.r][e.c] = e.v], Tail(edits))

DropLastRow(df) == [df EXCEPT !.rows = SubSeq(df.rows, 1, NRows(df) - 1)]

(* the modified table: the original with at most MaxEdits cells retyped,   *)
(* or a table that lost a row                                              *)
Modifieds(df) ==
    {ApplyEdits(df, edits) :
        edits \in UNION {[1..m -> EditOptions(df)] : m \in 0..MaxEdits}}
    \cup {DropLastRow(df)}

(* fw_object.files, by the type tag of each file *)
FileLists ==
    {<<Str(<<"n", "i", "f", "t", "i">>)>>, <<Str(<<"d", "i", "c", "o", "m">>), Str(<<"n", "i", "f", "t", "i">>)>>,
     <<Str(<<"n", "i", "f", "t", "i">>), Str(<<"n", "i", "f", "t", "i">>)>>, <<Str(<<"d", "i", "c", "o", "m">>)>>}

---------------------------------------------------------------------------
(* main() *)

Start(o, m) ==
    /\ original = o
    /\ modified = m
    /\ pc = "diff"
    /\ unequal = <<>>
    /\ provenance = <<>>
    /\ valid = <<>>
    /\ ERROR_MESSAGES = <<>>
    /\ x = 0
    /\ k = 0
    /\ res = FALSE
    /\ printed = <<>>
    /\ gets = <<>>
    /\ calls = <<>>

Init == \E o \in Originals : \E m \in Modifieds(o) : Start(o, m)

(* get_unequal_cells raises on tables of different shape *)
ShapeMismatch ==
    /\ pc = "diff"
    /\ Shape(original) # Shape(modified)
    /\ pc' = "crashed"
    /\ UNCHANGED <<original, modified, unequal, provenance, valid,
                   ERROR_MESSAGES, x, k, res, printed, gets, calls>>

get_unequal_cells ==
    /\ pc = "diff"
    /\ Shape(original) = Shape(modified)
    /\ unequal' = UnequalIndices(original, modified)
    /\ provenance' = ProvenanceOf(original, modified, unequal')
    /\ pc' = "validate"
    /\ UNCHANGED <<original, modified, valid, ERROR_MESSAGES, x, k, res,
                   printed, gets, calls>>

(* validate_on_unequal_cells: one pass of the loop calling change_checker *)
ValidateCell ==
    /\ pc = "validate"
    /\ Len(valid) < Len(unequal)
    /\ LET pair == unequal[Len(valid) + 1]
           r == change_checker(ILoc(modified, pair[1], pair[2]),
                               ColumnAt(modified, pair[2]), ERROR_MESSAGES)
       IN  /\ valid' = Append(valid, r.ret)
           /\ ERROR_MESSAGES' = r.q
    /\ UNCHANGED <<original, modified, pc, unequal, provenance, x, k, res,
                   printed, gets, calls>>

(* validate_on_unequal_cells: all(valid), after the loop *)
ValidateAll ==
    /\ pc = "validate"
    /\ Len(valid) = Len(unequal)
    /\ IF \A j \in 1..Len(valid) : valid[j]
       THEN /\ res' = TRUE
            /\ pc' = "gate"
            /\ x' = x
       ELSE /\ res' = res
            /\ pc' = "report"
            /\ x' = 0
    /\ UNCHANGED <<original, modified, unequal, provenance, valid,
                   ERROR_MESSAGES, k, printed, gets, calls>>

(* validate_on_unequal_cells: one pass of the reporting loop *)
ReportCell ==
    /\ pc = "report"
    /\ x < Len(valid)
    /\ IF valid[x + 1] = FALSE
       THEN IF ERROR_MESSAGES = <<>>
            THEN /\ pc' = "crashed"
                 /\ UNCHANGED <<ERROR_MESSAGES, printed, x>>
            ELSE /\ printed' = Append(printed,
                        [row   |-> unequal[x + 1][1] + 1,
                         col   |-> unequal[x + 1][2] + 1,
                         value |-> ILoc(modified, unequal[x + 1][1], unequal[x + 1][2]),
                         msg   |-> PopFirst(ERROR_MESSAGES).msg])
                 /\ ERROR_MESSAGES' = PopFirst(ERROR_MESSAGES).rest
                 /\ x' = x + 1
                 /\ pc' = pc
       ELSE /\ x' = x + 1
            /\ UNCHANGED <<ERROR_MESSAGES, printed, pc>>
    /\ UNCHANGED <<original, modified, unequal, provenance, valid, k, res,
                   gets, calls>>

(* validate_on_unequal_cells: return False after the report *)
ReportDone ==
    /\ pc = "report"
    /\ x = Len(valid)
    /\ res' = FALSE
    /\ pc' = "gate"
    /\ UNCHANGED <<original, modified, unequal, provenance, valid,
                   ERROR_MESSAGES, x, k, printed, gets, calls>>

(* main: upload only when nothing is queued and the validation passed *)
MainGate ==
    /\ pc = "gate"
    /\ IF GateOpen(ERROR_MESSAGES, res)
       THEN pc' = "upload" /\ k' = 0
       ELSE pc' = "exit" /\ k' = k
    /\ UNCHANGED <<original, modified, unequal, provenance, valid,
                   ERROR_MESSAGES, x, res, printed, gets, calls>>

(* upload_to_flywheel: one pass of the loop; the store answers client.get  *)
(* with an entity holding some list of files                               *)
UploadCell ==
    /\ pc = "upload"
    /\ k < Len(unequal)
    /\ \E files \in FileLists :
         LET pair        == unequal[k + 1]
             acquisition == Loc(modified, pair[1], <<"a", "c", "q", "u", "i", "s", "i", "t", "i", "o", "n", ".", "i", "d">>)
             file_type   == FileType(pair)
             column_list == Split(ColumnAt(modified, pair[2]))
             value       == ILoc(modified, pair[1], pair[2])
             update      == create_nested_fw_dict(column_list, value)
             matching    == MatchingFiles(files, file_type)
             f           == CHOOSE j \in matching : \A j2 \in matching : j <= j2
             Call(op)    == [op |-> op, entity |-> PyStr(acquisition), files |-> files,
                             file |-> f, pair |-> pair, arg |-> SubMapping(update)]
         IN  /\ gets' = Append(gets, PyStr(acquisition))
             /\ IF matching = {}
                THEN /\ pc' = "crashed"
                     /\ UNCHANGED <<k, calls>>
                ELSE /\ calls' = calls
                          \o (IF <<"i", "n", "f", "o">> \in UpdateKeys(update)
                              THEN <<Call("update_info")>> ELSE <<>>)
                          \o (IF <<"c", "l", "a", "s", "s", "i", "f", "i", "c", "a", "t", "i", "o", "n">> \in UpdateKeys(update)
                              THEN <<Call("update_classification")>> ELSE <<>>)
                     /\ k' = k + 1
                     /\ pc' = pc
    /\ UNCHANGED <<original, modified, unequal, provenance, valid,
                   ERROR_MESSAGES, x, res, printed>>

(* upload_to_flywheel: client.get fails with a remote error *)
UploadGetFails ==
    /\ pc = "upload"
    /\ k < Len(unequal)
    /\ pc' = "crashed"
    /\ UNCHANGED <<original, modified, unequal, provenance, valid,
                   ERROR_MESSAGES, x, k, res, printed, gets, calls>>

(* upload_to_flywheel returns; main prints Done and exits *)
UploadDone ==
    /\ pc = "upload"
    /\ k = Len(unequal)
    /\ pc' = "exit"
    /\ UNCHANGED <<original, modified, unequal, provenance, valid,
                   ERROR_MESSAGES, x, k, res, printed, gets, calls>>

(* the command is run again on the same two files: a fresh process *)
Rerun ==
    /\ pc \in {"exit", "crashed"}
    /\ pc' = "diff"
    /\ unequal' = <<>>
    /\ provenance' = <<>>
    /\ valid' = <<>>
    /\ ERROR_MESSAGES' = <<>>
    /\ x' = 0
    /\ k' = 0
    /\ res' = FALSE
    /\ printed' = <<>>
    /\ gets' = <<>>
    /\ calls' = <<>>
    /\ UNCHANGED <<original, modified>>

Next ==
    \/ ShapeMismatch
    \/ get_unequal_cells
    \/ ValidateCell
    \/ ValidateAll
    \/ ReportCell
    \/ ReportDone
    \/ MainGate
    \/ UploadCell
    \/ UploadGetFails
    \/ UploadDone
    \/ Rerun

Spec == Init /\ [][Next]_vars

---------------------------------------------------------------------------
(* change_checker on its own: one call on any value and column name, with  *)
(* ERROR_MESSAGES empty or already holding a diagnostic                    *)

ColumnPool ==
    {<<"i", "g", "n", "o", "r", "e">>, <<"V", "a", "l", "i", "d">>, <<"m", "o", "d", "a", "l", "i", "t", "y">>, <<"M", "o", "d", "a", "l", "i", "t", "y">>, <<"I", "n", "t", "e", "n", "d", "e", "d", "F", "o", "r">>, <<"t", "a", "s", "k">>,
     <<"a", "c", "q", "u", "i", "s", "i", "t", "i", "o", "n", ".", "l", "a", "b", "e", "l">>, <<"f", "i", "l", "e", "n", "a", "m", "e">>, <<"F", "i", "l", "e", "n", "a", "m", "e">>, <<"a", "c", "q", "u", "i", "s", "i", "t", "i", "o", "n", ".", "i", "d">>,
     <<"A", "c", "q", "u", "i", "s", "i", "t", "i", "o", "n", ".", "I", "D">>, <<"t", "y", "p", "e">>, <<"i", "n", "f", "o", "_", "B", "I", "D", "S", "_", "T", "a", "s", "k">>, <<"c", "l", "a", "s", "s", "i", "f", "i", "c", "a", "t", "i", "o", "n", "_", "M", "e", "a", "s", "u", "r", "e", "m", "e", "n", "t">>}

ValuePool ==
    {Str(<<"T", "r", "u", "e">>), Str(<<"T", "R", "U", "E">>), Str(<<"f", "a", "l", "s", "e">>), Str(<<"y", "e", "s">>), Str(<<"M", "R">>), Str(<<>>),
     Str(<<"x", "y", "z">>), Str(<<"n", "a", "n">>), Num(0), Num(1), Num(123), NaN,
     Str(<<"s", "u", "b", "-", "0", "1", "_", "s", "e", "s", "-", "0", "2", "_", "t", "a", "s", "k", "-", "r", "e", "s", "t", "_", "b", "o", "l", "d", ".", "n", "i", "i", ".", "g", "z">>), Str(<<"s", "u", "b", "-", "0", "1", "_", "T", "1", "w", ".", "n", "i", "i", ".", "g", "z">>),
     Str(<<"s", "u", "b", "-", "0", "1", "_", "m", "o", "d", "-", "T", "1", "w", "_", "d", "e", "f", "a", "c", "e", "m", "a", "s", "k", ".", "n", "i", "i">>), Str(<<"s", "u", "b", "-", "0", "1", ".", "n", "i", "i">>),
     Str(<<"n", "o", "t", "_", "a", "_", "b", "i", "d", "s", "_", "n", "a", "m", "e", ".", "t", "x", "t">>), Str(<<"s", "u", "b", "-", "0", "1", "_", "t", "a", "s", "k", "-", "r", "e", "s", "t", "_", "b", "o", "l", "d", ".", "n", "i", "i", ".", "g", "z", ".", "j", "s", "o", "n">>)}

PriorQueues == {<<>>, <<MsgString>>}

InitChecker ==
    \E column \in ColumnPool : \E user_input \in ValuePool : \E q \in PriorQueues :
        /\ original = Table(<<column>>, <<<<user_input>>>>)
        /\ modified = original
        /\ pc = "validate"
        /\ unequal = <<<<0, 0>>>>
        /\ provenance = <<>>
        /\ valid = <<>>
        /\ ERROR_MESSAGES = q
        /\ x = 0
        /\ k = 0
        /\ res = FALSE
        /\ printed = <<>>
        /\ gets = <<>>
        /\ calls = <<>>

SpecChecker == InitChecker /\ [][ValidateCell]_vars

---------------------------------------------------------------------------
(* Properties *)

ValueAt(pair) == ILoc(modified, pair[1], pair[2])

ColumnOf(pair) == ColumnAt(modified, pair[2])

(* what change_checker answers for the modified cell at pair *)
Checked(pair) == change_checker(ValueAt(pair), ColumnOf(pair), <<>>)

IdColumn == <<"a", "c", "q", "u", "i", "s", "i", "t", "i", "o", "n", ".", "i", "d">>

TypeColumn == <<"t", "y", "p", "e">>

SameShape == Shape(original) = Shape(modified)

(* C1: all-or-nothing apply gate.  Whenever an update call has been issued *)
(* every diffed cell has been validated and validates true; so a run in    *)
(* which some diffed cell fails validation issues no update call at all.   *)
C1_AllOrNothing ==
    calls # <<>> =>
        /\ Len(valid) = Len(unequal)
        /\ \A j \in 1..Len(unequal) : valid[j] /\ Checked(unequal[j]).ret

(* a finished run with one invalid cell and one valid info_ cell that      *)
(* would have been uploaded                                                *)
C1_Witness ==
    /\ pc = "exit"
    /\ Len(unequal) = 2
    /\ \E j \in 1..2 : ~valid[j]
    /\ \E j \in 1..2 : valid[j] /\ ColumnOf(unequal[j]) = <<"i", "n", "f", "o", "_", "B", "I", "D", "S", "_", "T", "a", "s", "k">>
    /\ calls = <<>>

(* C2: the original has the one row (acquisition.id=123, type=nifti,       *)
(* modality=MR), the modified copy changes only modality to CT; when the   *)
(* run has finished, one cell was diffed and validated true and exactly    *)
(* one update call was issued, on entity 123's nifti file, carrying        *)
(* {modality: "CT"}.                                                       *)
C2_OneUpdateCall ==
    (/\ original = Table(SmallCols, <<RowSmall>>)
     /\ modified = Table(SmallCols, <<<<Num(123), Str(<<"n", "i", "f", "t", "i">>), Str(<<"C", "T">>)>>>>)
     /\ pc = "exit")
    => /\ unequal = <<<<0, 2>>>>
       /\ valid = <<TRUE>>
       /\ Len(calls) = 1
       /\ calls[1].entity = <<"1", "2", "3">>
       /\ PyEq(calls[1].files[calls[1].file], Str(<<"n", "i", "f", "t", "i">>))
       /\ calls[1].arg = [keys |-> <<<<"m", "o", "d", "a", "l", "i", "t", "y">>>>, leaf |-> Str(<<"C", "T">>)]

(* two cells disagree unless both are missing or both hold the same value *)
Disagree(a, b) ==
    ~ \/ (a.t = "nan" /\ b.t = "nan")
      \/ (a.t # "nan" /\ b.t # "nan" /\ a = b)

ExactDiff ==
    LET D(pair) == Disagree(ILoc(original, pair[1], pair[2]), ILoc(modified, pair[1], pair[2]))
    IN  SelectSeq(AllPairs(original), D)

(* C3: diff exactness.  For tables of the same shape the diff is exactly   *)
(* the row-major list of the coordinates where the two tables disagree,    *)
(* only missing-vs-missing counting as equal.                              *)
C3_DiffExact ==
    (SameShape /\ pc \notin {"diff"}) => unequal = ExactDiff

(* C4: one call of change_checker appends exactly one diagnostic at the    *)
(* back of ERROR_MESSAGES when it returns False and leaves ERROR_MESSAGES   *)
(* unchanged when it returns True.                                         *)
C4_DiagnosticPairing ==
    [][(pc = "validate" /\ Len(valid') = Len(valid) + 1) =>
          IF valid'[Len(valid')]
          THEN ERROR_MESSAGES' = ERROR_MESSAGES
          ELSE /\ Len(ERROR_MESSAGES') = Len(ERROR_MESSAGES) + 1
               /\ SubSeq(ERROR_MESSAGES', 1, Len(ERROR_MESSAGES)) = ERROR_MESSAGES
               /\ ERROR_MESSAGES'[Len(ERROR_MESSAGES')]
                     \in {MsgBoolean, MsgDropDown, MsgString, MsgFilename, MsgAcquisitionId}]_vars

(* a rejected filename, its diagnostic queued behind an earlier one *)
C4_Witness ==
    /\ valid = <<FALSE>>
    /\ Lower(ColumnOf(<<0, 0>>)) = <<"f", "i", "l", "e", "n", "a", "m", "e">>
    /\ ERROR_MESSAGES = <<MsgString, MsgFilename>>

(* the invalid ones among the first n diffed cells, in diff order *)
InvalidPairs(n) ==
    LET Bad(pair) == ~Checked(pair).ret
    IN  SelectSeq(SubSeq(unequal, 1, n), Bad)

(* the blocks printed for a sequence of invalid cells *)
ReportOf(pairs) ==
    [j \in 1..Len(pairs) |->
        [row   |-> pairs[j][1] + 1,
         col   |-> pairs[j][2] + 1,
         value |-> ValueAt(pairs[j]),
         msg   |-> Checked(pairs[j]).q[1]]]

(* C5: FIFO attribution.  While reporting, the blocks printed so far are   *)
(* those of the invalid cells already passed, in diff order, each with its *)
(* 1-based row and column and the diagnostic of its own validation, and    *)
(* the queue holds one diagnostic per invalid cell still to report; once   *)
(* validate_on_unequal_cells has returned the queue is empty.              *)
C5_FifoAttribution ==
    /\ pc = "report" =>
          /\ printed = ReportOf(InvalidPairs(x))
          /\ Len(ERROR_MESSAGES) = Len(InvalidPairs(Len(unequal))) - Len(printed)
    /\ pc \in {"gate", "upload", "exit"} =>
          LET invalid == InvalidPairs(Len(unequal))
          IN  /\ ERROR_MESSAGES = <<>>
              /\ res = (invalid = <<>>)
              /\ printed = ReportOf(invalid)

(* two invalid cells of different kinds have been reported *)
C5_Witness ==
    /\ pc = "gate"
    /\ Len(printed) = 2
    /\ printed[1].msg # printed[2].msg
    /\ printed[1].row # printed[2].row
    /\ ERROR_MESSAGES = <<>>

(* C6: an update call is issued for a cell only when exactly one file of   *)
(* the resolved entity has the row's type; none or several matching files  *)
(* end the cell in an addressing error without any update call.            *)
C6_AddressingError ==
    \A j \in 1..Len(calls) :
        Cardinality(MatchingFiles(calls[j].files, FileType(calls[j].pair))) = 1

(* C7: a finished run whose modified table changes an acquisition.id cell  *)
(* has reported that cell with the cannot-edit diagnostic and has issued   *)
(* no update call.                                                         *)
C7_ImmutableId ==
    \A r \in 0..(NRows(original) - 1) :
        (/\ pc = "exit"
         /\ SameShape
         /\ Loc(original, r, IdColumn) # Loc(modified, r, IdColumn))
        => /\ \E j \in 1..Len(printed) :
                 /\ printed[j].row = r + 1
                 /\ modified.cols[printed[j].col] = IdColumn
                 /\ printed[j].msg = MsgAcquisitionId
           /\ calls = <<>>

HasPrefix(s, pre) == Len(s) >= Len(pre) /\ SubSeq(s, 1, Len(pre)) = pre

ExpectedOps(column) ==
    IF HasPrefix(column, <<"c", "l", "a", "s", "s", "i", "f", "i", "c", "a", "t", "i", "o", "n", "_">>) THEN <<"update_classification">>
    ELSE IF HasPrefix(column, <<"i", "n", "f", "o", "_">>) THEN <<"update_info">>
    ELSE <<>>

RECURSIVE ExpectedCalls(_)
ExpectedCalls(n) ==
    IF n = 0 THEN <<>>
    ELSE ExpectedCalls(n - 1) \o
         [j \in 1..Len(ExpectedOps(ColumnOf(unequal[n]))) |->
             [op   |-> ExpectedOps(ColumnOf(unequal[n]))[j],
              pair |-> unequal[n],
              arg  |-> create_nested_fw_dict(Tail(Split(ColumnOf(unequal[n]))),
                                             ValueAt(unequal[n]))]]

(* C8: branch-selective dispatch.  The update calls issued so far are, in  *)
(* order, one update_classification call per applied classification_*      *)
(* cell and one update_info call per applied info_* cell, each carrying    *)
(* the rest of the split column name folded around the cell's value, and   *)
(* nothing else: no cell triggers both and other columns trigger none.     *)
C8_BranchDispatch ==
    [j \in 1..Len(calls) |->
        [op |-> calls[j].op, pair |-> calls[j].pair, arg |-> calls[j].arg]]
    = ExpectedCalls(k)

(* an info_classification_ cell and a classification_ cell were applied *)
C8_Witness ==
    /\ pc = "exit"
    /\ Len(calls) = 2
    /\ \E j \in 1..2 :
          /\ ColumnOf(calls[j].pair) = <<"i", "n", "f", "o", "_", "c", "l", "a", "s", "s", "i", "f", "i", "c", "a", "t", "i", "o", "n", "_", "I", "n", "t", "e", "n", "t">>
          /\ calls[j].op = "update_info"
          /\ calls[j].arg = [keys |-> <<<<"c", "l", "a", "s", "s", "i", "f", "i", "c", "a", "t", "i", "o", "n">>, <<"I", "n", "t", "e", "n", "t">>>>,
                             leaf |-> Str(<<"F", "u", "n", "c", "t", "i", "o", "n", "a", "l">>)]
    /\ \E j \in 1..2 :
          /\ ColumnOf(calls[j].pair) = <<"c", "l", "a", "s", "s", "i", "f", "i", "c", "a", "t", "i", "o", "n", "_", "M", "e", "a", "s", "u", "r", "e", "m", "e", "n", "t">>
          /\ calls[j].op = "update_classification"
          /\ calls[j].arg = [keys |-> <<<<"M", "e", "a", "s", "u", "r", "e", "m", "e", "n", "t">>>>, leaf |-> Str(<<"T", "2">>)]

(* C9: with modified = original the diff is empty, the validation returns  *)
(* True with no diagnostic queued or printed, and no remote call is made,  *)
(* in a first run and in every repeated run.                               *)
C9_Idempotent ==
    original = modified =>
        /\ unequal = <<>>
        /\ ERROR_MESSAGES = <<>>
        /\ printed = <<>>
        /\ gets = <<>>
        /\ calls = <<>>
        /\ pc \notin {"report", "crashed"}
        /\ pc \in {"gate", "upload", "exit"} => res = TRUE

(* an unchanged table with missing cells has gone through the whole run *)
C9_Witness ==
    /\ original = modified
    /\ pc = "exit"
    /\ res = TRUE
    /\ \E r \in 1..NRows(original) : \E c \in 1..NCols(original) :
          original.rows[r][c] = NaN

(* C10: a changed type cell validates true and triggers no update call,    *)
(* and every update call issued for a cell targets a file whose type tag   *)
(* equals the type of that cell's row in the modified table.               *)
C10_TypeFromModified ==
    /\ \A j \in 1..Len(valid) : ColumnOf(unequal[j]) = TypeColumn => valid[j]
    /\ \A j \in 1..Len(calls) :
          /\ ColumnOf(calls[j].pair) # TypeColumn
          /\ PyEq(calls[j].files[calls[j].file], Loc(modified, calls[j].pair[1], TypeColumn))

(* the type of a row was changed and another cell of that row was applied *)
C10_Witness ==
    /\ pc = "exit"
    /\ \E j \in 1..Len(unequal) : ColumnOf(unequal[j]) = TypeColumn
    /\ \E j \in 1..Len(calls) :
          /\ ~PyEq(Loc(original, calls[j].pair[1], TypeColumn),
                   Loc(modified, calls[j].pair[1], TypeColumn))
          /\ PyEq(calls[j].files[calls[j].file], Loc(modified, calls[j].pair[1], TypeColumn))

=============================================================================
